---- MODULE Spec2Model ----
(***************************************************************************)
(* Discrete functional decoding, nimare/decode/discrete.py:                *)
(*   gclda_decode_roi, brainmap_decode, neurosynth_decode.                 *)
(* Each call is a run of the state machine: Init draws the arguments of    *)
(* one call from bounded families, and the actions are the successive      *)
(* blocks of the called function's body.                                   *)
(*                                                                         *)
(* Numbers.  A float is modelled exactly as an extended rational           *)
(* [n |-> numerator, d |-> denominator]: d > 0 is the finite value n/d in  *)
(* lowest terms, d = 0 is +inf (n = 1), -inf (n = -1) or NaN (n = 0), the  *)
(* values numpy's array division produces for a zero divisor.              *)
(* Results of library routines that have no closed rational form           *)
(* (chdtrc, one_way, two_way, multipletests, p_to_z) are kept as terms: a  *)
(* record naming the routine and its arguments.                            *)
(***************************************************************************)
EXTENDS Integers, Sequences, FiniteSets, TLC

VARIABLES pc, args, part, cnt, eff, test, corr, out_df, gclda

vars == <<pc, args, part, cnt, eff, test, corr, out_df, gclda>>

(***************************************************************************)
(* Bounds of the input families.                                           *)
(***************************************************************************)
NStudies == 5
RepeatFoci == 2
FearMax == 2
NVoxels == 3

(***************************************************************************)
(* Extended rational arithmetic (numpy float semantics, no rounding).      *)
(***************************************************************************)
Abs(x) == IF x < 0 THEN -x ELSE x

Sgn(x) == IF x > 0 THEN 1 ELSE IF x < 0 THEN -1 ELSE 0

RECURSIVE Gcd(_, _)
Gcd(a, b) == IF b = 0 THEN a ELSE Gcd(b, a % b)

Q(n, d) ==
    IF d = 0 THEN [n |-> Sgn(n), d |-> 0]
    ELSE LET s  == IF d < 0 THEN -1 ELSE 1
             gg == Gcd(Abs(n), Abs(d))
         IN  [n |-> (s * n) \div gg, d |-> (s * d) \div gg]

I(n) == Q(n, 1)

NaN == [n |-> 0, d |-> 0]

IsFinite(a) == a.d # 0

IsNaN(a) == a.d = 0 /\ a.n = 0

Neg(a) == [n |-> -a.n, d |-> a.d]

Mul(a, b) == Q(a.n * b.n, a.d * b.d)

Div(a, b) ==
    IF b.n < 0 THEN Q(-(a.n * b.d), a.d * (-b.n))
    ELSE Q(a.n * b.d, a.d * b.n)

Add(a, b) ==
    IF a.d = 0 /\ b.d = 0 THEN (IF a.n = b.n THEN a ELSE NaN)
    ELSE Q(a.n * b.d + b.n * a.d, a.d * b.d)

Sub(a, b) == Add(a, Neg(b))

Lt(a, b) == ~IsNaN(a) /\ ~IsNaN(b) /\ Sub(a, b).n < 0

\* np.sign: the sign of a float, NaN for NaN.
Sign(a) == IF IsNaN(a) THEN NaN ELSE I(Sgn(a.n))

RECURSIVE SumInt(_)
SumInt(s) == IF s = <<>> THEN 0 ELSE Head(s) + SumInt(Tail(s))

\* np.sum over a float vector.
RECURSIVE SumQ(_)
SumQ(s) == IF s = <<>> THEN I(0) ELSE Add(Head(s), SumQ(Tail(s)))

\* np.mean over an integer vector.
Mean(s) == Div(I(SumInt(s)), I(Len(s)))

RECURSIVE PowQ(_, _)
PowQ(a, j) == IF j = 0 THEN I(1) ELSE Mul(a, PowQ(a, j - 1))

RECURSIVE Choose(_, _)
Choose(n, k) ==
    IF k = 0 \/ k = n THEN 1
    ELSE IF k < 0 \/ k > n THEN 0
    ELSE Choose(n - 1, k - 1) + Choose(n - 1, k)

\* scipy.stats.binom.pmf(j, n, p) for 0 <= j <= n and 0 <= p <= 1.
binom_pmf(j, n, p) ==
    Mul(I(Choose(n, j)), Mul(PowQ(p, j), PowQ(Sub(I(1), p), n - j)))

RECURSIVE binom_cdf_sum(_, _, _)
binom_cdf_sum(k, n, p) ==
    IF k < 0 THEN I(0)
    ELSE Add(binom_pmf(k, n, p), binom_cdf_sum(k - 1, n, p))

\* scipy.stats.binom.cdf(k, n, p): NaN outside the support of the
\* parameters (n >= 0, 0 <= p <= 1), 0 below the support, 1 from n on.
binom_cdf(k, n, p) ==
    IF ~IsFinite(p) \/ Lt(p, I(0)) \/ Lt(I(1), p) \/ n < 0 THEN NaN
    ELSE IF k < 0 THEN I(0)
    ELSE IF k >= n THEN I(1)
    ELSE binom_cdf_sum(k, n, p)

(***************************************************************************)
(* Optional arguments.                                                     *)
(***************************************************************************)
NoneV == [some |-> FALSE]

Some(v) == [some |-> TRUE, v |-> v]

\* The value every local holds before the function assigns it.
Unset == [unset |-> TRUE]

Range(s) == {s[i] : i \in DOMAIN s}

\* sorted(list(S)) for a set of study ids.
RECURSIVE Sorted(_)
Sorted(S) ==
    IF S = {} THEN <<>>
    ELSE LET m == CHOOSE x \in S : \A y \in S : x <= y
         IN  <<m>> \o Sorted(S \ {m})

(***************************************************************************)
(* Arguments of brainmap_decode and neurosynth_decode.                     *)
(*   coordinates : the 'id' column of the coordinate table, one entry per  *)
(*                 focus;                                                  *)
(*   annotations : [index, columns, w], w[f][s] the weight of feature f    *)
(*                 for study s in thousandths;                             *)
(*   ids, ids2, features, frequency_threshold, u, correction as in the     *)
(*   signature.                                                            *)
(* ids, ids2 and features only name rows and columns the annotations hold  *)
(* (pandas' behaviour for a missing label is not modelled).                *)
(***************************************************************************)
StudyIds == 1 .. NStudies

Interval(a, b) == {s \in StudyIds : a <= s /\ s <= b}

Prefixes == {Interval(1, b) : b \in 0 .. NStudies}

\* frequency_threshold=0.001, in thousandths.
frequency_threshold_default == 1

\* u=0.05
u_default == Q(5, 100)

\* Weights of a feature present in the studies S: exactly the threshold for
\* odd ids (the inclusive boundary), 1.0 for even ids, 0 elsewhere.
WeightsOf(index, S) ==
    [s \in index |->
        IF s \notin S THEN 0
        ELSE IF s % 2 = 1 THEN frequency_threshold_default ELSE 1000]

AnnotationColumns == <<"id", "study_id", "pain", "contrast_id", "fear">>

Annotations(index, painS, fearS) ==
    [index   |-> index,
     columns |-> AnnotationColumns,
     w       |-> [f \in {"pain", "fear"} |->
                    IF f = "pain" THEN WeightsOf(index, painS)
                    ELSE WeightsOf(index, fearS)]]

AnnotationFamily ==
    {Annotations(StudyIds, p, f) :
        p \in Prefixes \cup {{NStudies}},
        f \in {Interval(1, b) : b \in 0 .. FearMax}}

\* A coordinate table over the studies 1..k, in descending order of id,
\* study 1 holding RepeatFoci foci and every other study one.
FociOf(k) ==
    IF k = 0 THEN <<>>
    ELSE [i \in 1 .. (k - 1 + RepeatFoci) |-> IF i <= k - 1 THEN k + 1 - i ELSE 1]

CoordinateFamily == {FociOf(k) : k \in 0 .. NStudies}

IdLists ==
    {Sorted(S) : S \in Prefixes} \cup {<<NStudies>>, <<1, 1>>, <<2, 1>>}

Ids2Family == {NoneV, Some(<<NStudies>>)}

FeaturesFamily == {NoneV, Some(<<"fear", "pain">>), Some(<<"pain">>)}

CorrectionFamily == {NoneV, Some("fdr_bh")}

BrainmapArgs ==
    {[fn |-> "brainmap_decode", coordinates |-> c, annotations |-> a,
      ids |-> i, ids2 |-> i2, features |-> f,
      frequency_threshold |-> frequency_threshold_default,
      u |-> u_default, correction |-> m] :
        c \in CoordinateFamily, a \in AnnotationFamily, i \in IdLists,
        i2 \in Ids2Family, f \in FeaturesFamily, m \in CorrectionFamily}

(***************************************************************************)
(* The block both decoders open with: the unselected set, the feature set, *)
(* the binarized annotations and the set sizes.                            *)
(***************************************************************************)
id_cols == {"id", "study_id", "contrast_id"}

dataset_ids_of(coordinates) == Sorted(Range(coordinates))

\* Mutant of unselected_of: the selected ids are not taken out of the dataset.
unselected_of_no_difference(dataset_ids, ids, ids2) ==
    IF ~ids2.some THEN dataset_ids ELSE ids2.v

unselected_of(dataset_ids, ids, ids2) ==
    IF ~ids2.some THEN Sorted(Range(dataset_ids) \ Range(ids))
    ELSE ids2.v

\* Mutant of features_of: the default feature set loses the column order.
features_of_reversed(features, annotations) ==
    IF ~features.some
    THEN LET fs == SelectSeq(annotations.columns, LAMBDA f : f \notin id_cols)
         IN  [i \in 1 .. Len(fs) |-> fs[Len(fs) + 1 - i]]
    ELSE features.v

features_of(features, annotations) ==
    IF ~features.some
    THEN SelectSeq(annotations.columns, LAMBDA f : f \notin id_cols)
    ELSE features.v

\* annotations.set_index('id')[features].ge(frequency_threshold)
features_df_of(annotations, features, frequency_threshold) ==
    [f \in Range(features) |->
        [s \in annotations.index |-> annotations.w[f][s] >= frequency_threshold]]

\* features_df.loc[rows].values: one row per entry of rows, one column per feature.
loc_values(features_df, features, rows) ==
    [r \in 1 .. Len(rows) |->
        [c \in 1 .. Len(features) |-> features_df[features[c]][rows[r]]]]

\* np.sum(arr, axis=0) of a boolean array with ncols columns.
sum_axis0(arr, ncols) ==
    [c \in 1 .. ncols |-> Cardinality({r \in DOMAIN arr : arr[r][c]})]

partition_block(a) ==
    LET dataset_ids == dataset_ids_of(a.coordinates)
        unselected  == unselected_of(dataset_ids, a.ids, a.ids2)
        features    == features_of(a.features, a.annotations)
        features_df == features_df_of(a.annotations, features, a.frequency_threshold)
    IN  [dataset_ids |-> dataset_ids,
         unselected  |-> unselected,
         features    |-> features,
         features_df |-> features_df,
         sel_array   |-> loc_values(features_df, features, a.ids),
         unsel_array |-> loc_values(features_df, features, unselected),
         n_selected  |-> Len(a.ids),
         n_unselected |-> Len(unselected)]

\* n_selected_term .. n_term, the counts both decoders derive from the arrays.
study_counts(p) ==
    LET nf == Len(p.features)
        n_selected_term   == sum_axis0(p.sel_array, nf)
        n_unselected_term == sum_axis0(p.unsel_array, nf)
    IN  [n_selected_term     |-> n_selected_term,
         n_unselected_term   |-> n_unselected_term,
         n_selected_noterm   |-> [i \in 1 .. nf |-> p.n_selected - n_selected_term[i]],
         n_unselected_noterm |-> [i \in 1 .. nf |-> p.n_unselected - n_unselected_term[i]],
         n_term              |-> [i \in 1 .. nf |-> n_selected_term[i] + n_unselected_term[i]]]

\* Mutant of sign_fi_of: the counts are not centred on the batch mean.
sign_fi_of_uncentred(n_selected_term) ==
    [i \in DOMAIN n_selected_term |-> Sign(I(n_selected_term[i]))]

\* np.sign(n_selected_term - np.mean(n_selected_term))
sign_fi_of(n_selected_term) ==
    [i \in DOMAIN n_selected_term |->
        Sign(Sub(I(n_selected_term[i]), Mean(n_selected_term)))]

\* np.sign(p_selected_g_term - p_selected_g_noterm)
sign_ri_of(p_selected_g_term, p_selected_g_noterm) ==
    [i \in DOMAIN p_selected_g_term |->
        Sign(Sub(p_selected_g_term[i], p_selected_g_noterm[i]))]

\* The 2x2 table of each feature, as passed to two_way.
cells_of(c) ==
    [i \in DOMAIN c.n_selected_term |->
        <<<<c.n_selected_term[i], c.n_selected_noterm[i]>>,
          <<c.n_unselected_term[i], c.n_unselected_noterm[i]>>>>]

\* special.chdtrc(1, two_way(cells)), feature by feature.
p_ri_of(cells) ==
    [i \in DOMAIN cells |->
        [k |-> "chdtrc", v |-> 1,
         x |-> [k |-> "two_way", cells |-> cells, i |-> i]]]

\* multipletests(p, alpha=u, method=correction, returnsorted=False)[1],
\* or p itself when correction is None.
correct(p, u, correction) ==
    IF ~correction.some THEN p
    ELSE [i \in DOMAIN p |->
            [k |-> "multipletests", pvals |-> p, alpha |-> u,
             method |-> correction.v, i |-> i]]

\* p_to_z(p, 'two') * sign
z_of(p, sign) ==
    [i \in DOMAIN p |-> [k |-> "p_to_z", p |-> p[i], tail |-> "two", sign |-> sign[i]]]

(***************************************************************************)
(* brainmap_decode                                                         *)
(***************************************************************************)
RareThreshold == 5

\* coordinates['id'].isin(ids of the studies whose value of term is v).sum()
n_foci_where(coordinates, features_df, term, v) ==
    Cardinality({r \in DOMAIN coordinates :
        \E s \in DOMAIN features_df[term] :
            features_df[term][s] = v /\ coordinates[r] = s})

\* 1 - binom.cdf(k=n_selected_term, n=n_term_foci, p=p_selected)
p_fi_binom(n_selected_term, n_term_foci, p_selected) ==
    [i \in DOMAIN n_selected_term |->
        Sub(I(1), binom_cdf(n_selected_term[i], n_term_foci[i], p_selected))]

\* Mutant of ignore_rare: the threshold is off by one.
ignore_rare_off_by_one(p, n_selected_term) ==
    [i \in DOMAIN p |-> IF n_selected_term[i] < RareThreshold - 1 THEN I(1) ELSE p[i]]

\* p[n_selected_term < 5] = 1.
ignore_rare(p, n_selected_term) ==
    [i \in DOMAIN p |-> IF n_selected_term[i] < RareThreshold THEN I(1) ELSE p[i]]

\* Mutant of normalize: each value is normalized by itself, feature by feature.
normalize_per_feature(v) == [i \in DOMAIN v |-> Div(v[i], v[i])]

\* p_term_g_selected / np.sum(p_term_g_selected)
normalize(v) == [i \in DOMAIN v |-> Div(v[i], SumQ(v))]

bm_counts(a, p) ==
    LET nf == Len(p.features)
        sc == study_counts(p)
        n_exps_across_terms ==
            SumInt([i \in 1 .. nf |->
                Cardinality({s \in a.annotations.index : p.features_df[p.features[i]][s]})])
        n_foci_in_database == Len(a.coordinates)
    IN  sc @@
        [n_exps_across_terms |-> n_exps_across_terms,
         p_term |-> [i \in 1 .. nf |-> Div(I(sc.n_term[i]), I(n_exps_across_terms))],
         n_foci_in_database |-> n_foci_in_database,
         p_selected |-> Div(I(p.n_selected), I(n_foci_in_database)),
         n_term_foci |->
            [i \in 1 .. nf |-> n_foci_where(a.coordinates, p.features_df, p.features[i], TRUE)],
         n_noterm_foci |->
            [i \in 1 .. nf |-> n_foci_where(a.coordinates, p.features_df, p.features[i], FALSE)]]

bm_effects(c) ==
    LET nf == Len(c.n_term)
        p_selected_g_term ==
            [i \in 1 .. nf |-> Div(I(c.n_selected_term[i]), I(c.n_term_foci[i]))]
        unnormalized ==
            [i \in 1 .. nf |-> Div(Mul(p_selected_g_term[i], c.p_term[i]), c.p_selected)]
    IN  [p_selected_g_term   |-> p_selected_g_term,
         l_selected_g_term   |-> [i \in 1 .. nf |-> Div(p_selected_g_term[i], c.p_selected)],
         p_selected_g_noterm |->
            [i \in 1 .. nf |-> Div(I(c.n_selected_noterm[i]), I(c.n_noterm_foci[i]))],
         p_term_g_selected   |-> normalize(unnormalized)]

bm_Partition ==
    /\ pc = "bm_partition"
    /\ part' = partition_block(args)
    /\ pc' = "bm_count"
    /\ UNCHANGED <<args, cnt, eff, test, corr, out_df, gclda>>

\* Lines 149-172.  n_selected / n_foci_in_database divides two Python ints:
\* an empty coordinate table raises ZeroDivisionError.
bm_Count ==
    /\ pc = "bm_count"
    /\ IF Len(args.coordinates) = 0
       THEN /\ pc' = "ZeroDivisionError"
            /\ UNCHANGED cnt
       ELSE /\ cnt' = bm_counts(args, part)
            /\ pc' = "bm_effect"
    /\ UNCHANGED <<args, part, eff, test, corr, out_df, gclda>>

bm_Effect ==
    /\ pc = "bm_effect"
    /\ eff' = bm_effects(cnt)
    /\ pc' = "bm_test"
    /\ UNCHANGED <<args, part, cnt, test, corr, out_df, gclda>>

bm_Test ==
    /\ pc = "bm_test"
    /\ test' = [p_fi    |-> p_fi_binom(cnt.n_selected_term, cnt.n_term_foci, cnt.p_selected),
                sign_fi |-> sign_fi_of(cnt.n_selected_term),
                p_ri    |-> p_ri_of(cells_of(cnt)),
                sign_ri |-> sign_ri_of(eff.p_selected_g_term, eff.p_selected_g_noterm)]
    /\ pc' = "bm_rare"
    /\ UNCHANGED <<args, part, cnt, eff, corr, out_df, gclda>>

bm_Rare ==
    /\ pc = "bm_rare"
    /\ test' = [test EXCEPT !.p_fi = ignore_rare(test.p_fi, cnt.n_selected_term),
                            !.p_ri = ignore_rare(test.p_ri, cnt.n_selected_term)]
    /\ pc' = "bm_correct"
    /\ UNCHANGED <<args, part, cnt, eff, corr, out_df, gclda>>

bm_Correct ==
    /\ pc = "bm_correct"
    /\ corr' = [p_corr_fi |-> correct(test.p_fi, args.u, args.correction),
                p_corr_ri |-> correct(test.p_ri, args.u, args.correction)]
    /\ pc' = "bm_assemble"
    /\ UNCHANGED <<args, part, cnt, eff, test, out_df, gclda>>

bm_out_df(features, c, t, e) ==
    LET z_corr_fi == z_of(c.p_corr_fi, t.sign_fi)
        z_corr_ri == z_of(c.p_corr_ri, t.sign_ri)
    IN  [i \in 1 .. Len(features) |->
            [Term              |-> features[i],
             pForward          |-> c.p_corr_fi[i],
             zForward          |-> z_corr_fi[i],
             likelihoodForward |-> e.l_selected_g_term[i],
             pReverse          |-> c.p_corr_ri[i],
             zReverse          |-> z_corr_ri[i],
             probReverse       |-> e.p_term_g_selected[i]]]

bm_Assemble ==
    /\ pc = "bm_assemble"
    /\ out_df' = bm_out_df(part.features, corr, test, eff)
    /\ pc' = "returned"
    /\ UNCHANGED <<args, part, cnt, eff, test, corr, gclda>>

brainmap_decode ==
    \/ bm_Partition
    \/ bm_Count
    \/ bm_Effect
    \/ bm_Test
    \/ bm_Rare
    \/ bm_Correct
    \/ bm_Assemble

(***************************************************************************)
(* neurosynth_decode                                                       *)
(***************************************************************************)
\* prior=0.5 in the signature.
prior_default == Q(1, 2)

\* The argument as the caller gives it: left out, or passed (None or a number).
PriorFamily == {[passed |-> FALSE],
                [passed |-> TRUE, v |-> NoneV],
                [passed |-> TRUE, v |-> Some(Q(1, 4))]}

\* The parameter prior as the body first sees it.
prior_param(given) == IF given.passed THEN given.v ELSE Some(prior_default)

\* Mutant of prior_of: None falls back to the signature's default.
prior_of_default_for_none(prior, p_term) ==
    [i \in DOMAIN p_term |-> IF ~prior.some THEN prior_default ELSE prior.v]

\* if prior is None: prior = p_term  (a scalar prior is broadcast)
prior_of(prior, p_term) ==
    IF ~prior.some THEN p_term
    ELSE [i \in DOMAIN p_term |-> prior.v]

NeurosynthArgs ==
    {[fn |-> "neurosynth_decode", coordinates |-> c, annotations |-> a,
      ids |-> i, ids2 |-> i2, features |-> f,
      frequency_threshold |-> frequency_threshold_default,
      prior |-> pr, u |-> u_default, correction |-> m] :
        c \in CoordinateFamily, a \in AnnotationFamily, i \in IdLists,
        i2 \in Ids2Family, f \in {NoneV, Some(<<"fear", "pain">>)},
        pr \in PriorFamily, m \in CorrectionFamily}

\* The decoding scenario of thirty studies: ids are the studies 1..10, the
\* coordinate table holds one focus of each study, pain is present in six
\* selected and two unselected studies, and fear, the feature decoded with
\* it, in the first a selected studies.
ScenarioIndex == 1 .. 30

ScenarioArgs ==
    {[fn |-> "neurosynth_decode",
      coordinates |-> [i \in ScenarioIndex |-> i],
      annotations |-> Annotations(ScenarioIndex, (1 .. 6) \cup (11 .. 12), 1 .. a),
      ids |-> [i \in 1 .. 10 |-> i], ids2 |-> NoneV, features |-> f,
      frequency_threshold |-> frequency_threshold_default,
      prior |-> [passed |-> TRUE, v |-> NoneV],
      u |-> u_default, correction |-> m] :
        a \in 0 .. 10, f \in FeaturesFamily, m \in CorrectionFamily}

ns_counts(p) ==
    LET nf == Len(p.features)
        sc == study_counts(p)
        n_noterm == [i \in 1 .. nf |-> sc.n_selected_noterm[i] + sc.n_unselected_noterm[i]]
    IN  sc @@
        [n_noterm |-> n_noterm,
         p_term   |-> [i \in 1 .. nf |-> Div(I(sc.n_term[i]), I(sc.n_term[i] + n_noterm[i]))],
         p_selected_g_term   |->
            [i \in 1 .. nf |-> Div(I(sc.n_selected_term[i]), I(sc.n_term[i]))],
         p_selected_g_noterm |->
            [i \in 1 .. nf |-> Div(I(sc.n_selected_noterm[i]), I(n_noterm[i]))]]

\* special.chdtrc(1, one_way(n_selected_term, n_term)), feature by feature.
p_fi_one_way(n_selected_term, n_term) ==
    [i \in DOMAIN n_selected_term |->
        [k |-> "chdtrc", v |-> 1,
         x |-> [k |-> "one_way", data |-> n_selected_term, n |-> n_term, i |-> i]]]

\* Mutant of p_selected_g_term_g_prior_of: the second term is weighted by
\* prior instead of 1 - prior.
p_selected_g_term_g_prior_of_same_weight(prior, p_selected_g_term, p_selected_g_noterm) ==
    [i \in DOMAIN prior |->
        Add(Mul(prior[i], p_selected_g_term[i]),
            Mul(prior[i], p_selected_g_noterm[i]))]

\* prior * p_selected_g_term + (1 - prior) * p_selected_g_noterm
p_selected_g_term_g_prior_of(prior, p_selected_g_term, p_selected_g_noterm) ==
    [i \in DOMAIN prior |->
        Add(Mul(prior[i], p_selected_g_term[i]),
            Mul(Sub(I(1), prior[i]), p_selected_g_noterm[i]))]

\* p_selected_g_term * prior / p_selected_g_term_g_prior
p_term_g_selected_g_prior_of(prior, p_selected_g_term, p_selected_g_term_g_prior) ==
    [i \in DOMAIN prior |->
        Div(Mul(p_selected_g_term[i], prior[i]), p_selected_g_term_g_prior[i])]

ns_out_df(features, c, t, cn, prior) ==
    LET z_corr_fi == z_of(c.p_corr_fi, t.sign_fi)
        z_corr_ri == z_of(c.p_corr_ri, t.sign_ri)
        p_selected_g_term_g_prior ==
            p_selected_g_term_g_prior_of(prior, cn.p_selected_g_term, cn.p_selected_g_noterm)
        p_term_g_selected_g_prior ==
            p_term_g_selected_g_prior_of(prior, cn.p_selected_g_term, p_selected_g_term_g_prior)
    IN  [i \in 1 .. Len(features) |->
            [Term        |-> features[i],
             pForward    |-> c.p_corr_fi[i],
             zForward    |-> z_corr_fi[i],
             probForward |-> p_selected_g_term_g_prior[i],
             pReverse    |-> c.p_corr_ri[i],
             zReverse    |-> z_corr_ri[i],
             probReverse |-> p_term_g_selected_g_prior[i]]]

ns_Partition ==
    /\ pc = "ns_partition"
    /\ part' = partition_block(args)
    /\ pc' = "ns_count"
    /\ UNCHANGED <<args, cnt, eff, test, corr, out_df, gclda>>

ns_Count ==
    /\ pc = "ns_count"
    /\ cnt' = ns_counts(part)
    /\ pc' = "ns_prior"
    /\ UNCHANGED <<args, part, eff, test, corr, out_df, gclda>>

ns_Prior ==
    /\ pc = "ns_prior"
    /\ eff' = [prior |-> prior_of(prior_param(args.prior), cnt.p_term)]
    /\ pc' = "ns_test"
    /\ UNCHANGED <<args, part, cnt, test, corr, out_df, gclda>>

ns_Test ==
    /\ pc = "ns_test"
    /\ test' = [p_fi    |-> p_fi_one_way(cnt.n_selected_term, cnt.n_term),
                sign_fi |-> sign_fi_of(cnt.n_selected_term),
                p_ri    |-> p_ri_of(cells_of(cnt)),
                sign_ri |-> sign_ri_of(cnt.p_selected_g_term, cnt.p_selected_g_noterm)]
    /\ pc' = "ns_correct"
    /\ UNCHANGED <<args, part, cnt, eff, corr, out_df, gclda>>

ns_Correct ==
    /\ pc = "ns_correct"
    /\ corr' = [p_corr_fi |-> correct(test.p_fi, args.u, args.correction),
                p_corr_ri |-> correct(test.p_ri, args.u, args.correction)]
    /\ pc' = "ns_assemble"
    /\ UNCHANGED <<args, part, cnt, eff, test, out_df, gclda>>

ns_Assemble ==
    /\ pc = "ns_assemble"
    /\ out_df' = ns_out_df(part.features, corr, test, cnt, eff.prior)
    /\ pc' = "returned"
    /\ UNCHANGED <<args, part, cnt, eff, test, corr, gclda>>

neurosynth_decode ==
    \/ ns_Partition
    \/ ns_Count
    \/ ns_Prior
    \/ ns_Test
    \/ ns_Correct
    \/ ns_Assemble

(***************************************************************************)
(* gclda_decode_roi                                                        *)
(*   roi   : [kind, affine, data]; kind "str" is a path, and affine and    *)
(*           data are then those of the image nib.load reads from it;      *)
(*           kind "other" is any object that is neither;                   *)
(*   model : [mask_affine, mask_data, p_topic_g_voxel_, p_word_g_topic_,   *)
(*           vocabulary].                                                  *)
(***************************************************************************)
Voxels == 1 .. NVoxels

Identity4 == <<<<1, 0, 0, 0>>, <<0, 1, 0, 0>>, <<0, 0, 1, 0>>, <<0, 0, 0, 1>>>>

\* Coordinate frames: the identity, a 2 mm scaling of x, a shift of z.
Affines ==
    {Identity4,
     [Identity4 EXCEPT ![1][1] = 2],
     [Identity4 EXCEPT ![3][4] = 1]}

\* Topic t and word w of a model with two topics and two words.
ModelOf(mask_affine, mask_data) ==
    [mask_affine |-> mask_affine,
     mask_data   |-> mask_data,
     p_topic_g_voxel_ |->
        [j \in 1 .. Cardinality({v \in Voxels : mask_data[v]}) |->
            <<Q(j, 10), Q(10 - j, 10)>>],
     p_word_g_topic_ |-> <<<<I(1), Q(1, 2)>>, <<I(0), Q(1, 2)>>>>,
     vocabulary |-> <<"pain", "fear">>]

GcldaArgs ==
    {[fn |-> "gclda_decode_roi",
      model |-> ModelOf(ma, md),
      roi |-> [kind |-> rk, affine |-> ra, data |-> rd],
      topic_priors |-> tp, prior_weight |-> I(1)] :
        ma \in Affines, md \in [Voxels -> BOOLEAN],
        rk \in {"str", "Nifti1Image", "other"}, ra \in Affines,
        rd \in [Voxels -> BOOLEAN],
        tp \in {NoneV, Some(<<I(1), I(3)>>)}}

\* Mutant of array_equal: only the 3x3 rotation and scaling block is compared.
array_equal_block_only(a, b) ==
    \A i \in 1 .. 3, j \in 1 .. 3 : a[i][j] = b[i][j]

\* np.array_equal(a, b) for two 2-d arrays
array_equal(a, b) ==
    /\ DOMAIN a = DOMAIN b
    /\ \A i \in DOMAIN a :
        /\ DOMAIN a[i] = DOMAIN b[i]
        /\ \A j \in DOMAIN a[i] : a[i][j] = b[i][j]

\* np.where(roi_vec[mask_vec])[0]: the positions, among the in-mask voxels,
\* of those the ROI holds (counted from 1 here).
roi_idx_of(mask_data, roi_data) ==
    LET in_mask == Sorted({v \in DOMAIN mask_data : mask_data[v]})
    IN  SelectSeq([j \in 1 .. Len(in_mask) |-> j], LAMBDA j : roi_data[in_mask[j]])

\* nimare.decode.utils.weight_priors(priors, weight): a vector as long as
\* priors, by which topic_weights is multiplied.
weight_priors(priors, weight) == [t \in DOMAIN priors |-> Mul(priors[t], weight)]

\* np.sum(p_topic_g_voxel_[roi_idx, :], axis=0), times the weighted priors.
topic_weights_of(p_topic_g_voxel_, roi_idx, topic_priors, prior_weight) ==
    LET summed == [t \in 1 .. 2 |->
                     SumQ([r \in 1 .. Len(roi_idx) |-> p_topic_g_voxel_[roi_idx[r]][t]])]
    IN  IF ~topic_priors.some THEN summed
        ELSE [t \in 1 .. 2 |->
                Mul(summed[t], weight_priors(topic_priors.v, prior_weight)[t])]

\* np.dot(p_word_g_topic_, topic_weights)
word_weights_of(p_word_g_topic_, topic_weights) ==
    [w \in DOMAIN p_word_g_topic_ |->
        SumQ([t \in DOMAIN topic_weights |-> Mul(p_word_g_topic_[w][t], topic_weights[t])])]

g_Load ==
    /\ pc = "g_load"
    /\ IF args.roi.kind = "other"
       THEN pc' = "IOError" /\ UNCHANGED gclda
       ELSE /\ gclda' = [roi |-> [affine |-> args.roi.affine, data |-> args.roi.data]]
            /\ pc' = "g_check_affine"
    /\ UNCHANGED <<args, part, cnt, eff, test, corr, out_df>>

g_CheckAffine ==
    /\ pc = "g_check_affine"
    /\ pc' = IF ~array_equal(gclda.roi.affine, args.model.mask_affine)
             THEN "ValueError" ELSE "g_mask"
    /\ UNCHANGED <<args, part, cnt, eff, test, corr, out_df, gclda>>

g_Mask ==
    /\ pc = "g_mask"
    /\ gclda' = gclda @@ [roi_idx |-> roi_idx_of(args.model.mask_data, gclda.roi.data)]
    /\ pc' = "g_topic_weights"
    /\ UNCHANGED <<args, part, cnt, eff, test, corr, out_df>>

g_TopicWeights ==
    /\ pc = "g_topic_weights"
    /\ gclda' = gclda @@
          [topic_weights |->
              topic_weights_of(args.model.p_topic_g_voxel_, gclda.roi_idx,
                               args.topic_priors, args.prior_weight)]
    /\ pc' = "g_project"
    /\ UNCHANGED <<args, part, cnt, eff, test, corr, out_df>>

g_Project ==
    /\ pc = "g_project"
    /\ gclda' = gclda @@
          [word_weights |-> word_weights_of(args.model.p_word_g_topic_, gclda.topic_weights)]
    /\ pc' = "g_return"
    /\ UNCHANGED <<args, part, cnt, eff, test, corr, out_df>>

g_Return ==
    /\ pc = "g_return"
    /\ out_df' = [decoded_df |->
                    [w \in DOMAIN args.model.vocabulary |->
                        [Term |-> args.model.vocabulary[w], Weight |-> gclda.word_weights[w]]],
                  topic_weights |-> gclda.topic_weights]
    /\ pc' = "returned"
    /\ UNCHANGED <<args, part, cnt, eff, test, corr, gclda>>

gclda_decode_roi ==
    \/ g_Load
    \/ g_CheckAffine
    \/ g_Mask
    \/ g_TopicWeights
    \/ g_Project
    \/ g_Return

(***************************************************************************)
(* One call of one of the three functions.                                 *)
(***************************************************************************)
EntryPoint(a) ==
    IF a.fn = "brainmap_decode" THEN "bm_partition"
    ELSE IF a.fn = "neurosynth_decode" THEN "ns_partition"
    ELSE "g_load"

Init ==
    /\ args \in BrainmapArgs \cup NeurosynthArgs \cup ScenarioArgs \cup GcldaArgs
    /\ pc = EntryPoint(args)
    /\ part = Unset /\ cnt = Unset /\ eff = Unset /\ test = Unset
    /\ corr = Unset /\ out_df = Unset /\ gclda = Unset

Next ==
    \/ brainmap_decode
    \/ neurosynth_decode
    \/ gclda_decode_roi

Spec == Init /\ [][Next]_vars

(***************************************************************************)
(* Properties.                                                             *)
(***************************************************************************)
Decoding == args.fn \in {"brainmap_decode", "neurosynth_decode"}

Partitioned == Decoding /\ part # Unset

IdsSet == Range(args.ids)

UnselectedSet == Range(part.unselected)

Universe == Range(args.coordinates)

\* C1 as stated: with ids2 None, for every coordinate table and every list
\* ids, selected and unselected are disjoint, their union is the set of
\* study ids of the coordinate table, each id once, and
\* n_selected + n_unselected is the number of distinct study ids.
C1_PartitionForEveryIds ==
    (Partitioned /\ ~args.ids2.some) =>
        /\ IdsSet \cap UnselectedSet = {}
        /\ IdsSet \cup UnselectedSet = Universe
        /\ part.n_selected + part.n_unselected = Cardinality(Universe)

\* C1 amended: with ids2 None, selected and unselected are disjoint and the
\* unselected list holds each of its ids once, for every ids; their union is
\* the set of study ids of the coordinate table and n_selected + n_unselected
\* its size whenever ids is free of duplicates and names only studies of the
\* coordinate table.
C1_PartitionOfUniverse ==
    (Partitioned /\ ~args.ids2.some) =>
        /\ IdsSet \cap UnselectedSet = {}
        /\ Len(part.unselected) = Cardinality(UnselectedSet)
        /\ UnselectedSet \subseteq Universe
        /\ (Cardinality(IdsSet) = Len(args.ids) /\ IdsSet \subseteq Universe) =>
              /\ IdsSet \cup UnselectedSet = Universe
              /\ part.n_selected + part.n_unselected = Cardinality(Universe)

C1_Witness ==
    /\ Partitioned /\ ~args.ids2.some
    /\ Cardinality(IdsSet) = Len(args.ids) /\ IdsSet \subseteq Universe
    /\ Len(args.ids) >= 2 /\ Len(part.unselected) >= 2
    /\ part.n_selected + part.n_unselected = Cardinality(Universe)

\* C2: in brainmap_decode the uncorrected forward p-value of every feature is
\* 1 - CDF_binomial(n_selected_term - 1; n_term_foci, p_selected), the
\* probability of at least n_selected_term successes.  (Stated for the
\* features the rare-feature rule leaves alone, with a success probability
\* strictly between 0 and 1 and at least as many trials as successes.)
C2_ForwardPIsAtLeast ==
    (args.fn = "brainmap_decode" /\ pc = "bm_rare") =>
        LET p_selected == Div(I(part.n_selected), I(Len(args.coordinates)))
        IN  \A i \in DOMAIN test.p_fi :
                (/\ cnt.n_selected_term[i] >= 5
                 /\ cnt.n_term_foci[i] >= cnt.n_selected_term[i]
                 /\ Lt(I(0), p_selected) /\ Lt(p_selected, I(1))) =>
                    test.p_fi[i] =
                        Sub(I(1), binom_cdf(cnt.n_selected_term[i] - 1,
                                            cnt.n_term_foci[i], p_selected))

EmpiricalBaseRate(i) == Div(I(cnt.n_term[i]), I(cnt.n_term[i] + cnt.n_noterm[i]))

PriorBound == args.fn = "neurosynth_decode" /\ eff # Unset

PresentIn(f, rows) ==
    Cardinality({r \in DOMAIN rows :
        args.annotations.w[f][rows[r]] >= args.frequency_threshold})

\* Ten selected and twenty unselected studies, frequency_threshold 0.001,
\* prior None, and pain present in six selected and two unselected studies.
InScenario ==
    /\ args.fn = "neurosynth_decode" /\ pc = "returned"
    /\ args.prior.passed /\ ~args.prior.v.some
    /\ args.frequency_threshold = 1
    /\ Len(args.ids) = 10 /\ Len(part.unselected) = 20
    /\ \E i \in DOMAIN part.features : part.features[i] = "pain"
    /\ PresentIn("pain", args.ids) = 6
    /\ PresentIn("pain", part.unselected) = 2

PainRow == CHOOSE i \in DOMAIN part.features : part.features[i] = "pain"

Unnormalized(i) ==
    Div(Mul(Div(I(cnt.n_selected_term[i]), I(cnt.n_term_foci[i])),
            Div(I(cnt.n_term[i]), I(cnt.n_exps_across_terms))),
        Div(I(part.n_selected), I(Len(args.coordinates))))

BrainmapReturned == args.fn = "brainmap_decode" /\ pc = "returned"

\* C5: in brainmap_decode a feature with n_term_foci = 0 makes only its own
\* record non-finite: every other feature whose own reverse effect is
\* defined keeps finite effect sizes.
C5_DegenerateFeatureIsolated ==
    (BrainmapReturned /\ \E f \in DOMAIN out_df : cnt.n_term_foci[f] = 0) =>
        LET healthy == {g \in DOMAIN out_df : cnt.n_term_foci[g] # 0}
            total   == SumQ([j \in 1 .. Len(out_df) |->
                              IF j \in healthy THEN Unnormalized(j) ELSE I(0)])
        IN  \A g \in healthy :
                (IsFinite(Unnormalized(g)) /\ IsFinite(total) /\ total # I(0)) =>
                    /\ IsFinite(out_df[g].likelihoodForward)
                    /\ IsFinite(out_df[g].probReverse)

\* C6: in brainmap_decode every feature with n_selected_term < 5 has forward
\* and reverse p-value exactly 1 once the raw p-values are computed and
\* before the correction runs, and with correction=None the returned
\* pForward and pReverse of such a feature are exactly 1.
C6_RareFeaturesSuppressed ==
    args.fn = "brainmap_decode" =>
        /\ pc \in {"bm_correct", "bm_assemble", "returned"} =>
              \A i \in DOMAIN test.p_fi :
                  cnt.n_selected_term[i] < 5 =>
                      test.p_fi[i] = I(1) /\ test.p_ri[i] = I(1)
        /\ (pc = "returned" /\ ~args.correction.some) =>
              \A i \in DOMAIN out_df :
                  cnt.n_selected_term[i] < 5 =>
                      out_df[i].pForward = I(1) /\ out_df[i].pReverse = I(1)

C6_Witness ==
    /\ BrainmapReturned /\ ~args.correction.some
    /\ \E i \in DOMAIN out_df :
          /\ cnt.n_selected_term[i] = 4
          /\ Sub(I(1), binom_cdf(cnt.n_selected_term[i], cnt.n_term_foci[i],
                                 cnt.p_selected)) \notin {I(1), NaN}
          /\ out_df[i].pForward = I(1) /\ out_df[i].pReverse = I(1)

NoZeroDenominator ==
    /\ \A i \in DOMAIN out_df : cnt.n_term_foci[i] # 0
    /\ cnt.n_exps_across_terms # 0
    /\ part.n_selected # 0

ReverseEffectSum == SumQ([i \in 1 .. Len(out_df) |-> out_df[i].probReverse])

\* C7 as stated: in brainmap_decode, whenever no feature has a
\* zero-denominator reverse effect, probReverse summed over the decoded
\* features is 1.
C7_ReverseEffectsSumToOne ==
    (BrainmapReturned /\ NoZeroDenominator) => ReverseEffectSum = I(1)

\* C7 amended: whenever no feature has a zero-denominator reverse effect and
\* at least one decoded feature is present in a selected study (so that the
\* un-normalized values do not sum to zero), probReverse summed over the
\* decoded features is 1, each value being the un-normalized one divided by
\* the sum over the whole feature set.
C7_ReverseEffectsNormalized ==
    (/\ BrainmapReturned /\ NoZeroDenominator
     /\ \E i \in DOMAIN out_df : cnt.n_selected_term[i] > 0) =>
        /\ ReverseEffectSum = I(1)
        /\ \A i \in DOMAIN out_df :
              out_df[i].probReverse =
                  Div(Unnormalized(i),
                      SumQ([j \in 1 .. Len(out_df) |-> Unnormalized(j)]))

C7_Witness ==
    /\ BrainmapReturned /\ NoZeroDenominator
    /\ Len(out_df) = 2
    /\ \A i \in DOMAIN out_df :
          cnt.n_selected_term[i] > 0 /\ out_df[i].probReverse # Q(1, 2)
    /\ ReverseEffectSum = I(1)

AffineDiffers ==
    \E i \in 1 .. 4, j \in 1 .. 4 :
        args.roi.affine[i][j] # args.model.mask_affine[i][j]

\* C8: in gclda_decode_roi, an ROI whose affine differs from the model
\* mask's in any entry makes the call fail with the alignment error before
\* any masking, topic-weight summation or word-weight projection: no result
\* is returned, and the ROI is used as given, never resampled.
C8_AffineMismatchFailsFirst ==
    (args.fn = "gclda_decode_roi" /\ args.roi.kind # "other" /\ AffineDiffers) =>
        /\ pc \in {"g_load", "g_check_affine", "ValueError"}
        /\ DOMAIN gclda \cap {"roi_idx", "topic_weights", "word_weights"} = {}
        /\ out_df = Unset
        /\ pc # "g_load" =>
              gclda.roi = [affine |-> args.roi.affine, data |-> args.roi.data]

C8_Witness ==
    /\ args.fn = "gclda_decode_roi" /\ AffineDiffers
    /\ pc = "ValueError"
    /\ args.roi.affine[3][4] # args.model.mask_affine[3][4]
    /\ \E v \in Voxels : args.roi.data[v] /\ args.model.mask_data[v]

\* The feature set of the call: the features argument, or the annotation
\* columns in their order without id, study_id and contrast_id.
FeatureSet ==
    IF args.features.some THEN args.features.v
    ELSE SelectSeq(args.annotations.columns,
                   LAMBDA c : c \notin {"id", "study_id", "contrast_id"})

\* C9: the table brainmap_decode or neurosynth_decode returns has exactly
\* one row per feature of the feature set, in the order of the feature set.
C9_OneRowPerFeatureInOrder ==
    (Decoding /\ pc = "returned") =>
        /\ Len(out_df) = Len(FeatureSet)
        /\ \A i \in DOMAIN out_df : out_df[i].Term = FeatureSet[i]

C9_Witness ==
    /\ Decoding /\ pc = "returned"
    /\ ~args.features.some
    /\ Len(out_df) = 2
    /\ out_df[1].Term = "pain" /\ out_df[2].Term = "fear"
    /\ out_df[1].pReverse # out_df[2].pReverse

PSelected == Div(I(part.n_selected), I(part.n_selected + part.n_unselected))

EmpiricalPriorReturned ==
    /\ args.fn = "neurosynth_decode" /\ pc = "returned"
    /\ args.prior.passed /\ ~args.prior.v.some

====
